---- MODULE Spec2Model ----
(***************************************************************************)
(* Model of code/register/orchids_register.py: the batch controller        *)
(* (main), one registration attempt (register_one_account), the mailbox    *)
(* poll loop (wait_for_code) with its code-extraction regex, the cookie    *)
(* selection loop and the publisher (upload_to_server).                    *)
(*                                                                         *)
(* Texts are sequences of one-character strings, so that the regular       *)
(* expressions and substring tests of the source are computed, not         *)
(* assumed.  Python's None is the string None below; an absent code or     *)
(* match is the empty sequence / NoMatch.                                  *)
(***************************************************************************)
EXTENDS Integers, Sequences, FiniteSets, TLC

VARIABLES
    pc,             \* control point of the single thread
    total_num,      \* main: args.count
    server_url,     \* main: args.server
    i,              \* main: loop index of "for i in range(total_num)"
    success_count,  \* main
    exit_status,    \* value handed to sys.exit, -1 while running
    wait_time,      \* main: last random delay (0 before the first)
    imported,       \* the engine modules are cached in sys.modules
    driver,         \* register_one_account: None or the Chrome handle
    success,        \* register_one_account
    result,         \* value returned by the last register_one_account call
    exc,            \* exception in flight in register_one_account
    email,          \* register_one_account
    attempt,        \* register_one_account: index of the challenge loop
    pass_check,     \* register_one_account
    elapsed,        \* wait_for_code: time.time() - start, in seconds
    processed_ids,  \* wait_for_code
    source,         \* wait_for_code: the text last handed to re.search
    match,          \* wait_for_code: the result of that search
    code,           \* register_one_account
    all_cookies,    \* register_one_account
    client_key,     \* register_one_account
    stdout,         \* CLIENT_KEY lines printed during the current attempt
    posts,          \* HTTP POSTs issued during the current attempt
    upload_ret,     \* value returned by upload_to_server
    \* ---- history variables (observations, not program state) ----
    calls,          \* cleanup calls made on the driver in this attempt
    fieldChecks,    \* code-field checks made by the challenge loop
    solverCalls,    \* force_inject_turnstile invocations in this attempt
    solverRaised,   \* some invocation of this attempt's loop raised
    solver,         \* record of the last force_inject_turnstile invocation
    scope,          \* the browser's current scope: main document or a frame
    field,          \* the page shows the numeric code field
    req,            \* the outbound HTTP call being sent, or the last one sent
    wireLog,        \* the outbound HTTP calls completed, oldest first
    post_result,    \* how the POST of this attempt ended
    extractCount,   \* per message id: how often extraction was attempted
    lastPoll,       \* what the last poll cycle of wait_for_code did
    reason,         \* why the current attempt failed
    outcomes,       \* return values of the finished attempts, in order
    started,        \* number of register_one_account calls made
    importFailed,   \* some attempt of the batch hit the ImportError
    delays          \* number of inter-attempt sleeps made

vars == << pc, total_num, server_url, i, success_count, exit_status, wait_time,
           imported, driver, success, result, exc, email, attempt, pass_check,
           elapsed, processed_ids, source, match, code, all_cookies,
           client_key, stdout, posts, upload_ret, calls, fieldChecks,
           solverCalls, solverRaised, solver, scope, field,
           post_result, extractCount, lastPoll,
           reason, outcomes, started, importFailed, delays, req, wireLog >>

None == "None"

(***************************************************************************)
(* Bounds of the model.                                                    *)
(***************************************************************************)
MaxCount == 2       \* largest --count explored
MaxCookies == 3     \* largest cookie jar explored
MaxInbox == 2       \* longest message list returned by the mailbox
MaxLen == 14        \* longest text handed to the extractor on its own
MaxFrames == 2      \* most iframes on the page
MaxCalls == 2       \* most outbound HTTP calls followed on the wire

(***************************************************************************)
(* Program constants.                                                      *)
(***************************************************************************)
CodeLen == 6            \* \d{6}
ChallengeRounds == 15   \* range(15)
Budget == 120           \* while time.time() - start < 120
RetryTotal == 3         \* Retry(total=3), line 43
PollInterval == 3       \* time.sleep(3)
DelayMin == 8           \* random.randint(8, 15)
DelayMax == 15

Digits == {"0", "1", "2", "3", "4", "5", "6", "7", "8", "9"}
IsDigit(c) == c \in Digits
Whitespace == {" ", "\n", "\t", "nbsp"}
IsSpace(c) == c \in Whitespace

Min(S) == CHOOSE x \in S : \A y \in S : x <= y

(***************************************************************************)
(* re.search(r'(?<!\d)(\d{6})(?!\d)', s): the engine tries the start       *)
(* positions from left to right; at a position the lookbehind must not see *)
(* a digit, six digits are consumed, and the lookahead must not see one.   *)
(***************************************************************************)
NoMatch == [start |-> 0, group |-> << >>]

\* the pattern without its lookahead: (?<!\d)(\d{6})
regex_no_lookahead(s, p) ==
    /\ (p = 1 \/ ~IsDigit(s[p - 1]))
    /\ p + CodeLen - 1 <= Len(s)
    /\ \A j \in p..(p + CodeLen - 1) : IsDigit(s[j])

regex_strict(s, p) ==
    /\ (p = 1 \/ ~IsDigit(s[p - 1]))
    /\ p + CodeLen - 1 <= Len(s)
    /\ \A j \in p..(p + CodeLen - 1) : IsDigit(s[j])
    /\ (p + CodeLen > Len(s) \/ ~IsDigit(s[p + CodeLen]))

RECURSIVE ScanFrom(_, _)
ScanFrom(s, p) ==
    IF p > Len(s) THEN NoMatch
    ELSE IF regex_strict(s, p)
         THEN [start |-> p, group |-> SubSeq(s, p, p + CodeLen - 1)]
         ELSE ScanFrom(s, p + 1)

re_search(s) == ScanFrom(s, 1)

(***************************************************************************)
(* Normalisation of a message body (lines 111-113).  An HTML entity is one *)
(* symbol of the text ("&lt;" and so on); "nbsp" is the no-break space     *)
(* that "&nbsp;" decodes to, which \s matches.                             *)
(***************************************************************************)
unescape_char(c) ==
    CASE c = "&lt;"   -> "<"
      [] c = "&gt;"   -> ">"
      [] c = "&amp;"  -> "&"
      [] c = "&nbsp;" -> "nbsp"
      [] c = "&#49;"  -> "1"
      [] OTHER        -> c

html_unescape(s) == [k \in 1..Len(s) |-> unescape_char(s[k])]

\* the position of the first ">" at or after p, or 0
RECURSIVE FirstClose(_, _)
FirstClose(s, p) ==
    IF p > Len(s) THEN 0
    ELSE IF s[p] = ">" THEN p ELSE FirstClose(s, p + 1)

\* re.sub(r'<[^>]+>', ' ', s), from position p on
RECURSIVE StripTagsFrom(_, _)
StripTagsFrom(s, p) ==
    IF p > Len(s) THEN << >>
    ELSE LET q == FirstClose(s, p + 2)
         IN IF s[p] = "<" /\ p + 1 <= Len(s) /\ s[p + 1] # ">" /\ q # 0
            THEN << " " >> \o StripTagsFrom(s, q + 1)
            ELSE << s[p] >> \o StripTagsFrom(s, p + 1)

strip_tags(s) == StripTagsFrom(s, 1)

\* re.sub(r'\s+', ' ', s), from position p on
RECURSIVE CollapseFrom(_, _)
CollapseFrom(s, p) ==
    IF p > Len(s) THEN << >>
    ELSE IF IsSpace(s[p])
         THEN IF p > 1 /\ IsSpace(s[p - 1])
              THEN CollapseFrom(s, p + 1)
              ELSE << " " >> \o CollapseFrom(s, p + 1)
         ELSE << s[p] >> \o CollapseFrom(s, p + 1)

collapse_spaces(s) == CollapseFrom(s, 1)

\* str.strip()
strip(s) ==
    LET keep == {k \in 1..Len(s) : ~IsSpace(s[k])}
    IN IF keep = {} THEN << >>
       ELSE SubSeq(s, Min(keep), CHOOSE k \in keep : \A m \in keep : m <= k)

normalize(raw_content) ==
    strip(collapse_spaces(strip_tags(html_unescape(raw_content))))

(***************************************************************************)
(* What the collaborators can answer.                                      *)
(***************************************************************************)
NonText == << "nonstr" >>       \* a JSON value that is not a string

\* messages of GET /api/emails: {id, subject, content | html_content}
MsgCodeInBody ==
    [id |-> 1, subject |-> << "H", "i" >>,
     content |-> << "<", "b", ">", "4", "8", "2", "9", "1", "3",
                    "<", "/", "b", ">" >>,
     html_content |-> << >>]
MsgCodeInSubject ==
    [id |-> 2, subject |-> << "c", "o", "d", "e", " ",
                              "1", "2", "3", "4", "5", "6" >>,
     content |-> << >>, html_content |-> << >>]
MsgNoCode ==
    [id |-> 1, subject |-> << "H", "i" >>, content |-> << >>,
     html_content |-> << "i", "d", "&nbsp;", "\n",
                         "1", "2", "3", "4", "5", "6", "7" >>]
MsgBadSubject ==
    [id |-> 2, subject |-> NonText, content |-> << >>,
     html_content |-> << >>]

Msgs == {MsgCodeInBody, MsgCodeInSubject, MsgNoCode, MsgBadSubject}
MsgIds == {m.id : m \in Msgs}

\* a message list: at most MaxInbox messages, newest first, no id twice
Inboxes ==
    UNION {{l \in [1..n -> Msgs] :
                \A a, b \in 1..n : a # b => l[a].id # l[b].id} :
           n \in 0..MaxInbox}

\* how long one http.get of the message list takes, in seconds: it answers
\* at once, or just inside its timeout=10
FetchDurations == {0, 9}

\* cookies of the browser; a domain is a text
ClerkDomain == << "c", "l", "e", "r", "k", ".", "o", ".", "a" >>
AppDomain == << "w", ".", "o", ".", "a" >>
CookieClerk  == [name |-> "__client", domain |-> ClerkDomain,
                 value |-> "tok_clerk"]
CookieApp    == [name |-> "__client", domain |-> AppDomain,
                 value |-> "tok_app"]
CookieOther  == [name |-> "session", domain |-> AppDomain, value |-> "s"]
CookieEmpty  == [name |-> "__client", domain |-> << >>, value |-> ""]
CookieNoName == [name |-> None, domain |-> AppDomain, value |-> "x"]

Cookies == {CookieClerk, CookieApp, CookieOther, CookieEmpty, CookieNoName}

\* every ordering of every set of at most MaxCookies cookies
CookieJars ==
    UNION {{j \in [1..n -> Cookies] :
                \A a, b \in 1..n : a # b => j[a] # j[b]} : n \in 0..MaxCookies}

ServerUrls == {"", "http://localhost:3000"}
HttpStatuses == {200, 201, 500}

\* 'clerk' in domain
Contains(sub, s) ==
    \E p \in 1..(Len(s) - Len(sub) + 1) : SubSeq(s, p, p + Len(sub) - 1) = sub

Clerk == << "c", "l", "e", "r", "k" >>

\* "if x:" for a string-or-None value
Truthy(x) == x # None /\ x # ""

(***************************************************************************)
(* The cookie loop of register_one_account (lines 255-267), from cookie k  *)
(* on with the key found so far.  name.lower() raises on a cookie without  *)
(* a name.                                                                 *)
(***************************************************************************)
RECURSIVE SelectFrom(_, _, _)
SelectFrom(cookies, k, key) ==
    IF k > Len(cookies) THEN [raised |-> FALSE, key |-> key]
    ELSE IF cookies[k].name = None THEN [raised |-> TRUE, key |-> key]
    ELSE IF cookies[k].name = "__client"
         THEN SelectFrom(cookies, k + 1, cookies[k].value)
         ELSE SelectFrom(cookies, k + 1, key)

select_client_key(cookies) == SelectFrom(cookies, 1, None)

(***************************************************************************)
(* State after construction: main has parsed its arguments (lines 340-348) *)
(* and stands before the for loop.                                         *)
(***************************************************************************)
mainVars == << total_num, server_url, i, success_count, exit_status,
               wait_time, delays >>
batchHist == << outcomes, started, importFailed >>
httpVars == << req, wireLog >>
loopVars == << attempt, pass_check, fieldChecks, solverCalls, solverRaised,
               solver, scope, field >>
wfcVars == << elapsed, processed_ids, source, match, extractCount, lastPoll >>
cookieVars == << all_cookies, client_key >>
uploadVars == << stdout, posts, upload_ret, post_result >>

\* no outbound HTTP call made
NoReq == [call |-> "none", channel |-> "none", tries |-> 0, status |-> "none"]

\* no invocation of force_inject_turnstile recorded
NoSolver ==
    [ret |-> "none", mainHit |-> FALSE, entered |-> << >>, hitAt |-> 0,
     backs |-> 0]

\* the locals of a register_one_account call that has not run yet
FreshFrame ==
    /\ driver = None /\ success = FALSE /\ exc = "none" /\ email = None
    /\ attempt = 0 /\ pass_check = FALSE
    /\ elapsed = 0 /\ processed_ids = {} /\ source = << >> /\ match = NoMatch
    /\ code = << >> /\ all_cookies = << >> /\ client_key = None
    /\ stdout = << >> /\ posts = 0 /\ upload_ret = None
    /\ calls = << >> /\ fieldChecks = 0 /\ solverCalls = 0
    /\ solverRaised = FALSE /\ post_result = "none"
    /\ solver = NoSolver /\ scope = "main" /\ field = FALSE
    /\ extractCount = [m \in MsgIds |-> 0] /\ lastPoll = "none"
    /\ reason = "none"

Init ==
    /\ pc = "main_for"
    /\ total_num \in 0..MaxCount
    /\ server_url \in ServerUrls
    /\ i = 0 /\ success_count = 0 /\ exit_status = -1 /\ wait_time = 0
    /\ imported = FALSE
    /\ result = FALSE
    /\ FreshFrame
    /\ outcomes = << >> /\ started = 0 /\ importFailed = FALSE
    /\ delays = 0
    /\ req = NoReq /\ wireLog = << >>

(***************************************************************************)
(* main, lines 355-368.                                                    *)
(***************************************************************************)
\* for i in range(total_num): register_one_account(...) is called
MainFor ==
    /\ pc = "main_for"
    /\ IF i < total_num
       THEN /\ pc' = "import"
            /\ started' = started + 1
            /\ driver' = None /\ success' = FALSE /\ exc' = "none"
            /\ email' = None /\ attempt' = 0 /\ pass_check' = FALSE
            /\ elapsed' = 0 /\ processed_ids' = {} /\ source' = << >>
            /\ match' = NoMatch /\ code' = << >> /\ all_cookies' = << >>
            /\ client_key' = None /\ stdout' = << >> /\ posts' = 0
            /\ upload_ret' = None /\ calls' = << >> /\ fieldChecks' = 0
            /\ solverCalls' = 0 /\ extractCount' = [m \in MsgIds |-> 0]
            /\ solverRaised' = FALSE /\ post_result' = "none"
            /\ solver' = NoSolver /\ scope' = "main" /\ field' = FALSE
            /\ lastPoll' = "none" /\ reason' = "none" /\ result' = FALSE
       ELSE /\ pc' = "main_end"
            /\ UNCHANGED << started, driver, success, exc, email, loopVars,
                            wfcVars, code, cookieVars, uploadVars, calls,
                            reason, result >>
    /\ UNCHANGED << httpVars, mainVars, imported, outcomes, importFailed >>

\* if register_one_account(...): success_count += 1
MainCount ==
    /\ pc = "returned"
    /\ success_count' = IF result = TRUE THEN success_count + 1
                        ELSE success_count
    /\ pc' = "main_if_delay"
    /\ UNCHANGED << httpVars, total_num, server_url, i, exit_status, wait_time, delays,
                    imported,
                    driver, success, result, exc, email, loopVars, wfcVars,
                    code, cookieVars, uploadVars, calls, reason, batchHist >>

\* if i < total_num - 1: wait_time = random.randint(8, 15)
MainDelay ==
    /\ pc = "main_if_delay"
    /\ IF i < total_num - 1
       THEN /\ \E w \in DelayMin..DelayMax : wait_time' = w
            /\ pc' = "main_sleep"
            /\ i' = i
       ELSE /\ wait_time' = wait_time
            /\ pc' = "main_for"
            /\ i' = i + 1
    /\ UNCHANGED << httpVars, total_num, server_url, success_count, exit_status, delays,
                    imported,
                    driver, success, result, exc, email, loopVars, wfcVars,
                    code, cookieVars, uploadVars, calls, reason, batchHist >>

\* time.sleep(wait_time) without the pause: the next call follows at once
MainSleepSkipped ==
    /\ pc = "main_sleep"
    /\ wait_time' = 0
    /\ delays' = delays
    /\ i' = i + 1
    /\ pc' = "main_for"
    /\ UNCHANGED << httpVars, total_num, server_url, success_count, exit_status, imported,
                    driver, success, result, exc, email, loopVars, wfcVars,
                    code, cookieVars, uploadVars, calls, reason, batchHist >>

\* time.sleep(wait_time); wait_time is dead afterwards
MainSleep ==
    /\ pc = "main_sleep"
    /\ wait_time' = 0
    /\ delays' = delays + 1
    /\ i' = i + 1
    /\ pc' = "main_for"
    /\ UNCHANGED << httpVars, total_num, server_url, success_count, exit_status, imported,
                    driver, success, result, exc, email, loopVars, wfcVars,
                    code, cookieVars, uploadVars, calls, reason, batchHist >>

\* an exit status that asks for every attempt to succeed
MainEndAllRequired ==
    /\ pc = "main_end"
    /\ exit_status' = IF success_count = total_num THEN 0 ELSE 1
    /\ pc' = "exited"
    /\ UNCHANGED << httpVars, total_num, server_url, i, success_count, wait_time,
                    delays, imported, driver, success, result, exc, email, loopVars,
                    wfcVars, code, cookieVars, uploadVars, calls, reason,
                    batchHist >>

\* return 0 if success_count > 0 else 1, handed to sys.exit
MainEnd ==
    /\ pc = "main_end"
    /\ exit_status' = IF success_count > 0 THEN 0 ELSE 1
    /\ pc' = "exited"
    /\ UNCHANGED << httpVars, total_num, server_url, i, success_count, wait_time,
                    delays, imported, driver, success, result, exc, email, loopVars,
                    wfcVars, code, cookieVars, uploadVars, calls, reason,
                    batchHist >>

(***************************************************************************)
(* register_one_account, lines 129-289.                                    *)
(***************************************************************************)
attemptRest == << mainVars, result, outcomes, started, httpVars >>

\* an error raised inside the try block of line 154 goes to line 278
Raise(tag) ==
    /\ exc' = "Exception"
    /\ reason' = tag
    /\ pc' = "except"

\* a step of the try block that only succeeds or raises
Step(here, next, tag) ==
    /\ pc = here
    /\ \/ /\ pc' = next
          /\ UNCHANGED << exc, reason >>
       \/ Raise(tag)

\* an ImportError that ends the process instead of the attempt
ImportFatal ==
    /\ pc = "import"
    /\ \/ /\ imported' = TRUE
          /\ pc' = "new_driver"
          /\ UNCHANGED << result, reason, importFailed, exit_status >>
       \/ /\ ~imported
          /\ imported' = FALSE
          /\ result' = FALSE
          /\ reason' = "dependency"
          /\ importFailed' = TRUE
          /\ exit_status' = 1
          /\ pc' = "exited"
    /\ UNCHANGED << httpVars, total_num, server_url, i, success_count, wait_time, delays,
                    driver, success, exc, email, loopVars, wfcVars, code, cookieVars,
                    uploadVars, calls, outcomes, started >>

\* lines 133-141: the engine imports; ImportError returns False
Import ==
    /\ pc = "import"
    /\ \/ /\ imported' = TRUE
          /\ pc' = "new_driver"
          /\ UNCHANGED << result, reason, importFailed >>
       \/ /\ ~imported
          /\ imported' = FALSE
          /\ result' = FALSE
          /\ reason' = "dependency"
          /\ importFailed' = TRUE
          /\ pc' = "return"
    /\ UNCHANGED << httpVars, mainVars, driver, success, exc, email, loopVars, wfcVars,
                    code, cookieVars, uploadVars, calls, outcomes, started >>

\* lines 151-157: driver = uc.Chrome(...)
NewDriver ==
    /\ pc = "new_driver"
    /\ \/ /\ driver' = "Chrome"
          /\ pc' = "navigate"
          /\ UNCHANGED << exc, reason >>
       \/ /\ Raise("session")
          /\ UNCHANGED driver
    /\ UNCHANGED << attemptRest, imported, success, email, loopVars, wfcVars,
                    code, cookieVars, uploadVars, calls, importFailed >>

\* lines 159-164: driver.get(TARGET_URL)
Navigate ==
    /\ Step("navigate", "sign_in", "navigation")
    /\ UNCHANGED << attemptRest, imported, driver, success, email, loopVars,
                    wfcVars, code, cookieVars, uploadVars, calls,
                    importFailed >>

\* lines 167-174: click Sign in; on any error driver.get(".../sign-in")
SignIn ==
    /\ Step("sign_in", "wait_welcome", "navigation")
    /\ UNCHANGED << attemptRest, imported, driver, success, email, loopVars,
                    wfcVars, code, cookieVars, uploadVars, calls,
                    importFailed >>

\* line 176: wait for the sign-in page
WaitWelcome ==
    /\ Step("wait_welcome", "sign_up", "form-not-found")
    /\ UNCHANGED << attemptRest, imported, driver, success, email, loopVars,
                    wfcVars, code, cookieVars, uploadVars, calls,
                    importFailed >>

\* lines 179-185: click Sign up; on any error driver.get(".../sign-up")
SignUp ==
    /\ Step("sign_up", "wait_form", "navigation")
    /\ UNCHANGED << attemptRest, imported, driver, success, email, loopVars,
                    wfcVars, code, cookieVars, uploadVars, calls,
                    importFailed >>

\* line 188: wait for the email field
WaitForm ==
    /\ Step("wait_form", "create_temp_email", "form-not-found")
    /\ UNCHANGED << attemptRest, imported, driver, success, email, loopVars,
                    wfcVars, code, cookieVars, uploadVars, calls,
                    importFailed >>

\* lines 189-191 and create_temp_email (79-89), which never raises:
\* "if not email: return False" leaves through the finally block
CreateTempEmail ==
    /\ pc = "create_temp_email"
    /\ \/ /\ email' = "a@b.test"
          /\ pc' = "fill"
          /\ UNCHANGED reason
       \/ /\ email' = None
          /\ reason' = "mailbox-unavailable"
          /\ pc' = "finally"
    /\ UNCHANGED << attemptRest, imported, driver, success, exc, loopVars,
                    wfcVars, code, cookieVars, uploadVars, calls,
                    importFailed >>

\* lines 193-195: type the address and the password
Fill ==
    /\ Step("fill", "continue", "error")
    /\ UNCHANGED << attemptRest, imported, driver, success, email, loopVars,
                    wfcVars, code, cookieVars, uploadVars, calls,
                    importFailed >>

\* lines 197-205: click Continue, else submit the password field;
\* then pass_check = False and the for loop starts.  The page may show the
\* code field at once.
Continue ==
    /\ pc = "continue"
    /\ \/ /\ pc' = "loop_check"
          /\ field' \in BOOLEAN
          /\ UNCHANGED << exc, reason >>
       \/ /\ Raise("error")
          /\ field' = FALSE
    /\ pass_check' = FALSE
    /\ attempt' = 0
    /\ UNCHANGED << attemptRest, imported, driver, success, email, fieldChecks,
                    solverCalls, solverRaised, solver, scope, wfcVars, code,
                    cookieVars, uploadVars, calls, importFailed >>

\* lines 206-210: the for loop takes its next index, if any, and looks for
\* the code field (find_elements may raise)
LoopCheck ==
    /\ pc = "loop_check"
    /\ IF attempt >= ChallengeRounds
       THEN /\ pc' = "after_loop"
            /\ UNCHANGED << pass_check, fieldChecks, exc, reason >>
       ELSE /\ fieldChecks' = fieldChecks + 1
            /\ \/ IF field
                  THEN /\ pass_check' = TRUE
                       /\ pc' = "after_loop"
                       /\ UNCHANGED << exc, reason >>
                  ELSE /\ pc' = "loop_solve"
                       /\ UNCHANGED << pass_check, exc, reason >>
               \/ /\ Raise("field-check-error")
                  /\ UNCHANGED pass_check
    /\ solver' = NoSolver        \* the solver's return value is not kept
    /\ UNCHANGED << attemptRest, imported, driver, success, email, attempt,
                    solverCalls, solverRaised, scope, field, wfcVars, code,
                    cookieVars, uploadVars, calls, importFailed >>

(***************************************************************************)
(* force_inject_turnstile, lines 291-337.  What the browser does during    *)
(* one invocation: the outcome of the script in the current scope, of the  *)
(* enumeration of the iframes, and per iframe of switch_to.frame (sw), of  *)
(* the script in it, of the default_content of line 332/334 (back) and of  *)
(* the default_content of the except clause, line 336 (handler).  A        *)
(* default_content that raises leaves the scope where it was ("raise-stay")*)
(* or has switched it all the same ("raise-switched").  The record of an   *)
(* invocation: how it ended (ret), whether the main document had the       *)
(* control (mainHit), the iframes entered (entered), the first iframe      *)
(* whose script found the control (hitAt) and the default_content calls    *)
(* made (backs).                                                           *)
(***************************************************************************)
FrameBehaviours ==
    {f \in [sw : {"ok", "raise"}, script : {"True", "False", "raise"},
            back : {"ok", "raise"},
            handler : {"ok", "raise-stay", "raise-switched"}] :
        /\ f.sw = "raise" => (f.script = "False" /\ f.back = "ok")
        /\ f.script = "raise" => f.back = "ok"
        /\ (f.sw = "ok" /\ f.script # "raise" /\ f.back = "ok") =>
               f.handler = "ok"}

SolverInputs ==
    [main : {"True", "False", "raise"}, iframes : {"ok", "raise"},
     frames : {<< >>}]
    \cup [main : {"False"}, iframes : {"ok"},
          frames : UNION {[1..n -> FrameBehaviours] : n \in 1..MaxFrames}]

\* lines 327-336 from iframe k on; r is the record of the invocation so far
RECURSIVE FrameLoop(_, _, _, _)
FrameLoop(frames, k, sc, r) ==
    IF k > Len(frames)
    THEN [solver |-> [r EXCEPT !.ret = "False"], scope |-> sc]    \* line 337
    ELSE
      LET f == frames[k]
          in_frame == f.sw = "ok"
          sc1 == IF in_frame THEN "frame" ELSE sc
          hit == in_frame /\ f.script = "True"
          r1 == IF in_frame
                THEN [r EXCEPT !.entered = Append(@, k),
                               !.hitAt = IF hit /\ @ = 0 THEN k ELSE @]
                ELSE r
          tried == in_frame /\ f.script # "raise"    \* line 332 or 334 runs
          r2 == IF tried THEN [r1 EXCEPT !.backs = @ + 1] ELSE r1
      IN IF tried /\ f.back = "ok"
         THEN IF hit
              THEN [solver |-> [r2 EXCEPT !.ret = "True"], scope |-> "main"]
              ELSE FrameLoop(frames, k + 1, "main", r2)
         ELSE \* except: driver.switch_to.default_content(), line 336
              LET r3 == [r2 EXCEPT !.backs = @ + 1]
              IN IF f.handler = "ok"
                 THEN FrameLoop(frames, k + 1, "main", r3)
                 ELSE [solver |-> [r3 EXCEPT !.ret = "raise"],
                       scope |-> IF f.handler = "raise-stay" THEN sc1
                                 ELSE "main"]

force_inject_turnstile(sc, inp) ==
    IF inp.main = "raise"                                   \* line 322
    THEN [solver |-> [NoSolver EXCEPT !.ret = "raise"], scope |-> sc]
    ELSE IF inp.main = "True"                               \* lines 322-324
    THEN [solver |-> [NoSolver EXCEPT !.ret = "True", !.mainHit = TRUE],
          scope |-> sc]
    ELSE IF inp.iframes = "raise"                           \* line 326
    THEN [solver |-> [NoSolver EXCEPT !.ret = "raise"], scope |-> sc]
    ELSE FrameLoop(inp.frames, 1, sc, NoSolver)

\* every way one invocation can end, by the scope it starts in
SolverResults ==
    [sc \in {"main", "frame"} |->
        {force_inject_turnstile(sc, inp) : inp \in SolverInputs}]

\* lines 213-217: force_inject_turnstile(driver), with or without the
\* try/except: pass around it; time.sleep(2); next index.  Meanwhile the
\* page may come to show the code field.
SolveStep(caught) ==
    /\ pc = "loop_solve"
    /\ \E out \in SolverResults[scope], shows \in BOOLEAN :
             /\ solver' = out.solver
             /\ scope' = out.scope
             /\ solverCalls' = solverCalls + 1
             /\ solverRaised' = (solverRaised \/ out.solver.ret = "raise")
             /\ field' = (field \/ shows)
             /\ IF out.solver.ret = "raise" /\ ~caught
                THEN /\ Raise("solver-error")
                     /\ UNCHANGED attempt
                ELSE /\ attempt' = attempt + 1
                     /\ pc' = "loop_check"
                     /\ UNCHANGED << exc, reason >>
    /\ UNCHANGED << attemptRest, imported, driver, success, email,
                    pass_check, fieldChecks, wfcVars, code, cookieVars,
                    uploadVars, calls, importFailed >>

\* the solver called without its own try/except: its error reaches line 278
LoopSolveUncaught == SolveStep(FALSE)

\* lines 213-217: the solver inside try/except: pass
LoopSolve == SolveStep(TRUE)

\* lines 219-221: if not pass_check: return False.  Past the loop its
\* index is dead, and the loop's counts are kept only for a loop that
\* ended without the field.
AfterLoop ==
    /\ pc = "after_loop"
    /\ IF ~pass_check
       THEN /\ reason' = "challenge-timeout"
            /\ pc' = "finally"
            /\ UNCHANGED << attempt, fieldChecks, solverCalls, solverRaised,
                            solver >>
       ELSE /\ pc' = "wait_otp"
            /\ attempt' = 0 /\ fieldChecks' = 0 /\ solverCalls' = 0
            /\ solverRaised' = FALSE /\ solver' = NoSolver
            /\ UNCHANGED reason
    /\ UNCHANGED << attemptRest, imported, driver, success, exc, email,
                    pass_check, scope, field, wfcVars, code, cookieVars,
                    uploadVars, calls, importFailed >>

\* line 225, then wait_for_code is entered (lines 92-95)
WaitOtp ==
    /\ Step("wait_otp", "wfc_while", "error")
    /\ elapsed' = 0
    /\ processed_ids' = {}
    /\ UNCHANGED << attemptRest, imported, driver, success, email, loopVars,
                    source, match, extractCount, lastPoll, code, cookieVars,
                    uploadVars, calls, importFailed >>

(***************************************************************************)
(* wait_for_code, lines 91-127.  One action is one turn of the while loop: *)
(* the fetch, the handling of its answer and the sleep, if reached.        *)
(***************************************************************************)
wfcRest == << attemptRest, imported, driver, success, exc, email, loopVars,
              cookieVars, uploadVars, calls, reason, importFailed >>

\* line 109
raw_content(m) ==
    IF m.content # << >> THEN m.content
    ELSE IF m.html_content # << >> THEN m.html_content ELSE << >>

\* the membership test of line 106 left out
is_new_always(email_id, processed) == TRUE

\* line 106: if email_id not in processed_ids
is_new(email_id, processed) == email_id \notin processed

\* the poll loop without its try/except: the error leaves wait_for_code
WfcFetchErrorRaises ==
    /\ pc = "wfc_while"
    /\ elapsed < Budget
    /\ \E d \in FetchDurations : elapsed' = elapsed + d
    /\ lastPoll' = "error"
    /\ Raise("error")
    /\ UNCHANGED << processed_ids, source, match, extractCount, code >>
    /\ UNCHANGED << attemptRest, imported, driver, success, email, loopVars,
                    cookieVars, uploadVars, calls, importFailed >>

\* lines 99-100 raise (network error, an answer that is not JSON): except: pass
WfcFetchError ==
    /\ pc = "wfc_while"
    /\ elapsed < Budget
    /\ \E d \in FetchDurations : elapsed' = elapsed + d
    /\ lastPoll' = "error"
    /\ UNCHANGED << pc, processed_ids, source, match, extractCount, code >>
    /\ UNCHANGED wfcRest

\* the answer has no message, or data[0] was seen before: time.sleep(3).
\* Only data[0] is looked at; lastPoll notes when a message behind it has
\* an id that is not in processed_ids.
WfcNothingNew ==
    /\ pc = "wfc_while"
    /\ elapsed < Budget
    /\ \E d \in FetchDurations, data \in Inboxes :
          /\ \/ /\ data = << >>
                /\ lastPoll' = "empty"
             \/ /\ data # << >>
                /\ ~is_new(data[1].id, processed_ids)
                /\ lastPoll' =
                       IF \E k \in 2..Len(data) :
                              data[k].id \notin processed_ids
                       THEN "skipped" ELSE "seen"
          /\ elapsed' = elapsed + d + PollInterval
    /\ UNCHANGED << pc, processed_ids, source, match, extractCount, code >>
    /\ UNCHANGED wfcRest

\* lines 106-122 on a message not seen before
WfcNewMessage ==
    /\ pc = "wfc_while"
    /\ elapsed < Budget
    /\ \E d \in FetchDurations, data \in Inboxes :
          /\ data # << >>
          /\ LET latest_email == data[1]
                 email_id == latest_email.id
                 subject == latest_email.subject
                 text_content == normalize(raw_content(latest_email))
                 inSubject == re_search(subject)
                 inText == re_search(text_content)
             IN /\ is_new(email_id, processed_ids)
                /\ processed_ids' = processed_ids \cup {email_id}
                /\ extractCount' =
                       [extractCount EXCEPT ![email_id] = @ + 1]
                /\ IF subject = NonText
                   THEN \* re.search raises TypeError: except: pass
                        /\ source' = subject
                        /\ match' = NoMatch
                        /\ lastPoll' = "failed"
                        /\ elapsed' = elapsed + d
                        /\ UNCHANGED << pc, code >>
                   ELSE IF inSubject # NoMatch
                   THEN /\ source' = subject
                        /\ match' = inSubject
                        /\ code' = inSubject.group
                        /\ lastPoll' = "found"
                        /\ elapsed' = elapsed
                        /\ pc' = "wfc_return"
                   ELSE IF inText # NoMatch
                   THEN /\ source' = text_content
                        /\ match' = inText
                        /\ code' = inText.group
                        /\ lastPoll' = "found"
                        /\ elapsed' = elapsed
                        /\ pc' = "wfc_return"
                   ELSE /\ source' = text_content
                        /\ match' = NoMatch
                        /\ lastPoll' = "new"
                        /\ elapsed' = elapsed + d + PollInterval
                        /\ UNCHANGED << pc, code >>
    /\ UNCHANGED wfcRest

\* line 97 fails, line 127: return None
WfcTimeout ==
    /\ pc = "wfc_while"
    /\ elapsed >= Budget
    /\ code' = << >>
    /\ lastPoll' = "timeout"
    /\ pc' = "wfc_return"
    /\ UNCHANGED << elapsed, processed_ids, source, match, extractCount >>
    /\ UNCHANGED wfcRest

\* lines 122 and 127: the call returns and its frame is gone
WfcReturn ==
    /\ pc = "wfc_return"
    /\ pc' = "if_code"
    /\ elapsed' = 0 /\ processed_ids' = {} /\ source' = << >>
    /\ match' = NoMatch /\ extractCount' = [m \in MsgIds |-> 0]
    /\ lastPoll' = "none"
    /\ UNCHANGED code
    /\ UNCHANGED wfcRest

(***************************************************************************)
(* register_one_account, continued.                                        *)
(***************************************************************************)
\* an attempt that polls the mailbox again when no code came
IfCodePollAgain ==
    /\ pc = "if_code"
    /\ IF code # << >>
       THEN \/ /\ pc' = "username"
               /\ UNCHANGED << exc, reason >>
            \/ Raise("error")
       ELSE /\ pc' = "wfc_while"
            /\ UNCHANGED << exc, reason >>
    /\ UNCHANGED << attemptRest, imported, driver, success, email, loopVars,
                    wfcVars, code, cookieVars, uploadVars, calls,
                    importFailed >>

\* lines 226-231 and 275-276: "if code:" types the code, else logs the timeout
IfCode ==
    /\ pc = "if_code"
    /\ IF code # << >>
       THEN \/ /\ pc' = "username"
               /\ UNCHANGED << exc, reason >>
            \/ Raise("error")
       ELSE /\ reason' = "code-timeout"
            /\ pc' = "finally"
            /\ UNCHANGED exc
    /\ UNCHANGED << attemptRest, imported, driver, success, email, loopVars,
                    wfcVars, code, cookieVars, uploadVars, calls,
                    importFailed >>

\* lines 234-244: driver.current_url may raise; the username sub-step
\* swallows its own errors
Username ==
    /\ Step("username", "get_cookies", "error")
    /\ UNCHANGED << attemptRest, imported, driver, success, email, loopVars,
                    wfcVars, code, cookieVars, uploadVars, calls,
                    importFailed >>

\* lines 247-254: Network.getAllCookies, else driver.get_cookies()
GetCookies ==
    /\ pc = "get_cookies"
    /\ \/ /\ \E jar \in CookieJars : all_cookies' = jar
          /\ pc' = "select"
          /\ UNCHANGED << exc, reason >>
       \/ /\ Raise("error")
          /\ UNCHANGED all_cookies
    /\ UNCHANGED << attemptRest, imported, driver, success, email, loopVars,
                    wfcVars, code, client_key, uploadVars, calls,
                    importFailed >>

\* lines 255-267: the loop over all_cookies
SelectCookie ==
    /\ pc = "select"
    /\ LET sel == select_client_key(all_cookies)
       IN IF sel.raised
          THEN /\ Raise("error")
               /\ client_key' = sel.key
          ELSE /\ client_key' = sel.key
               /\ pc' = "if_client_key"
               /\ UNCHANGED << exc, reason >>
    /\ UNCHANGED << attemptRest, imported, driver, success, email, loopVars,
                    wfcVars, code, all_cookies, uploadVars, calls,
                    importFailed >>

\* a publisher that prints the key only after the empty-URL return
upload_print_late(key, url, out, nposts, ret, how) ==
    IF url = ""
    THEN /\ out = stdout
         /\ nposts = posts
         /\ how = "none"
         /\ ret = "True"
    ELSE /\ out = Append(stdout, key)
         /\ nposts = posts + 1
         /\ \/ \E status \in HttpStatuses :
                  /\ how = ToString(status)
                  /\ ret = IF status \in {200, 201} THEN "True" ELSE "False"
            \/ /\ how = "raise"
               /\ ret = "False"

\* a publisher that sends the POST again when the first one raised
upload_repost_on_error(key, url, out, nposts, ret, how) ==
    /\ out = Append(stdout, key)
    /\ IF url = ""
       THEN /\ nposts = posts
            /\ how = "none"
            /\ ret = "True"
       ELSE \/ /\ nposts = posts + 1
               /\ \E status \in HttpStatuses :
                     /\ how = ToString(status)
                     /\ ret = IF status \in {200, 201} THEN "True"
                              ELSE "False"
            \/ /\ nposts = posts + 2
               /\ how = "raise"
               /\ ret = "False"

\* upload_to_server, lines 52-77: what it prints, posts and returns
upload_to_server(key, url, out, nposts, ret, how) ==
    /\ out = Append(stdout, key)
    /\ IF url = ""
       THEN /\ nposts = posts
            /\ how = "none"
            /\ ret = "True"
       ELSE /\ nposts = posts + 1
            /\ \/ \E status \in HttpStatuses :
                     /\ how = ToString(status)
                     /\ ret = IF status \in {200, 201} THEN "True"
                              ELSE "False"
               \/ /\ how = "raise"      \* requests.post raised
                  /\ ret = "False"

\* success taken from what the publisher returns
IfClientKeyChecked ==
    /\ pc = "if_client_key"
    /\ IF Truthy(client_key)
       THEN /\ upload_to_server(client_key, server_url, stdout', posts',
                                upload_ret', post_result')
            /\ success' = (upload_ret' = "True")
            /\ UNCHANGED reason
       ELSE /\ reason' = "credential-not-found"
            /\ UNCHANGED << success, uploadVars >>
    /\ pc' = "finally"
    /\ UNCHANGED << attemptRest, imported, driver, exc, email, loopVars,
                    wfcVars, code, cookieVars, calls, importFailed >>

\* lines 269-274: "if client_key:" publishes, ignores what the publisher
\* returns and sets success
IfClientKey ==
    /\ pc = "if_client_key"
    /\ IF Truthy(client_key)
       THEN /\ upload_to_server(client_key, server_url, stdout', posts',
                                upload_ret', post_result')
            /\ success' = TRUE
            /\ UNCHANGED reason
       ELSE /\ reason' = "credential-not-found"
            /\ UNCHANGED << success, uploadVars >>
    /\ pc' = "finally"
    /\ UNCHANGED << attemptRest, imported, driver, exc, email, loopVars,
                    wfcVars, code, cookieVars, calls, importFailed >>

\* a handler that does not catch: the error stays in flight
ExceptNotCaught ==
    /\ pc = "except"
    /\ exc' = exc
    /\ pc' = "finally"
    /\ UNCHANGED << attemptRest, imported, driver, success, email, loopVars,
                    wfcVars, code, cookieVars, uploadVars, calls, reason,
                    importFailed >>

\* lines 278-279: except Exception as e: log(...)
Except ==
    /\ pc = "except"
    /\ exc' = "none"
    /\ pc' = "finally"
    /\ UNCHANGED << attemptRest, imported, driver, success, email, loopVars,
                    wfcVars, code, cookieVars, uploadVars, calls, reason,
                    importFailed >>

\* lines 280-287: if driver: try: driver.service.stop(); driver.quit()
\* except: pass.  Then the function returns: success at line 289, or the
\* False of an early return, at which success is still False.
Finally ==
    /\ pc = "finally"
    /\ IF driver # None
       THEN \/ calls' = << "stop", "quit" >>    \* quit returns or raises
            \/ calls' = << "stop" >>            \* stop raises
       ELSE calls' = calls
    /\ pc' = "return"
    /\ result' = success
    /\ UNCHANGED << httpVars, mainVars, outcomes, started, imported, driver, success,
                    exc, email, loopVars, wfcVars, code, cookieVars,
                    uploadVars, reason, importFailed >>

\* the call returns to main, or an exception still in flight leaves it
Return ==
    /\ pc = "return"
    /\ IF exc = "none"
       THEN /\ outcomes' = Append(outcomes, result)
            /\ pc' = "returned"
       ELSE /\ outcomes' = outcomes
            /\ pc' = "crashed"
    /\ UNCHANGED << httpVars, mainVars, result, started, imported, driver, success, exc,
                    email, loopVars, wfcVars, code, cookieVars, uploadVars,
                    calls, reason, importFailed >>

Next ==
    \/ MainFor \/ MainCount \/ MainDelay \/ MainSleep \/ MainEnd
    \/ Import \/ NewDriver \/ Navigate \/ SignIn \/ WaitWelcome \/ SignUp
    \/ WaitForm \/ CreateTempEmail \/ Fill \/ Continue
    \/ LoopCheck \/ LoopSolve \/ AfterLoop \/ WaitOtp
    \/ WfcFetchError \/ WfcNothingNew \/ WfcNewMessage \/ WfcTimeout
    \/ WfcReturn
    \/ IfCode \/ Username \/ GetCookies \/ SelectCookie \/ IfClientKey
    \/ Except \/ Finally \/ Return

Spec == Init /\ [][Next]_vars

(***************************************************************************)
(* The extractor on its own: every text over a digit and a non-digit, up   *)
(* to MaxLen symbols, is handed to the search of lines 117-120.            *)
(***************************************************************************)
ExtractAlphabet == {"7", "x"}
Texts == UNION {[1..n -> ExtractAlphabet] : n \in 0..MaxLen}

InitExtract ==
    /\ pc = "extract"
    /\ source \in Texts
    /\ match = NoMatch
    /\ total_num = 0 /\ server_url = ""
    /\ i = 0 /\ success_count = 0 /\ exit_status = -1 /\ wait_time = 0
    /\ imported = FALSE /\ result = FALSE
    /\ driver = None /\ success = FALSE /\ exc = "none" /\ email = None
    /\ attempt = 0 /\ pass_check = FALSE
    /\ elapsed = 0 /\ processed_ids = {}
    /\ code = << >> /\ all_cookies = << >> /\ client_key = None
    /\ stdout = << >> /\ posts = 0 /\ upload_ret = None
    /\ calls = << >> /\ fieldChecks = 0 /\ solverCalls = 0
    /\ solverRaised = FALSE /\ post_result = "none"
    /\ solver = NoSolver /\ scope = "main" /\ field = FALSE
    /\ extractCount = [m \in MsgIds |-> 0] /\ lastPoll = "none"
    /\ reason = "none"
    /\ outcomes = << >> /\ started = 0 /\ importFailed = FALSE
    /\ delays = 0
    /\ req = NoReq /\ wireLog = << >>

\* lines 118-120: match = re.search(regex_strict, source); code = group(1)
Search ==
    /\ pc = "extract"
    /\ match' = re_search(source)
    /\ code' = match'.group
    /\ pc' = "extracted"
    /\ UNCHANGED << httpVars, mainVars, imported, driver, success, result, exc, email,
                    loopVars, elapsed, processed_ids, source, extractCount,
                    lastPoll, cookieVars, uploadVars, calls, reason,
                    batchHist >>

NextExtract == Search

SpecExtract == InitExtract /\ [][NextExtract]_vars

(***************************************************************************)
(* wait_for_code on its own, from its entry in an attempt that has reached *)
(* line 226.  The thread keeps running, so a step that is possible is      *)
(* eventually taken.                                                       *)
(***************************************************************************)
InitPoll ==
    /\ pc = "wfc_while"
    /\ total_num = 1 /\ server_url \in ServerUrls
    /\ i = 0 /\ success_count = 0 /\ exit_status = -1 /\ wait_time = 0
    /\ imported = TRUE /\ result = FALSE
    /\ driver = "Chrome" /\ success = FALSE /\ exc = "none"
    /\ email = "a@b.test"
    /\ attempt = 0 /\ pass_check = TRUE
    /\ elapsed = 0 /\ processed_ids = {} /\ source = << >> /\ match = NoMatch
    /\ code = << >> /\ all_cookies = << >> /\ client_key = None
    /\ stdout = << >> /\ posts = 0 /\ upload_ret = None
    /\ calls = << >> /\ fieldChecks = 0 /\ solverCalls = 0
    /\ solverRaised = FALSE /\ post_result = "none"
    /\ solver = NoSolver /\ scope \in {"main", "frame"} /\ field = TRUE
    /\ extractCount = [m \in MsgIds |-> 0] /\ lastPoll = "none"
    /\ reason = "none"
    /\ outcomes = << >> /\ started = 1 /\ importFailed = FALSE
    /\ delays = 0
    /\ req = NoReq /\ wireLog = << >>

NextPoll ==
    \/ WfcFetchError \/ WfcNothingNew \/ WfcNewMessage \/ WfcTimeout
    \/ WfcReturn

FairPoll == InitPoll /\ [][NextPoll]_vars /\ WF_vars(NextPoll)

(***************************************************************************)
(* The outbound HTTP calls on their own, one transport attempt at a time.  *)
(* create_http_session (lines 41-46) mounts Retry(total=3) on the session  *)
(* `http` for https:// URLs; create_temp_email (line 82) and wait_for_code *)
(* (line 99) call http.get on the https mailbox API, upload_to_server      *)
(* (line 69) calls requests.post, which uses a session of its own with no  *)
(* retries.  A Retry gives up when a failed attempt leaves its total below *)
(* zero.                                                                   *)
(***************************************************************************)
OutboundCalls == {"create_temp_email", "wait_for_code", "upload_to_server"}

channel_of(call) == IF call = "upload_to_server" THEN "requests" ELSE "http"

max_retries(channel) == IF channel = "http" THEN RetryTotal ELSE 0

InitHttp ==
    /\ pc = "http_idle"
    /\ total_num = 0
    /\ server_url \in ServerUrls
    /\ i = 0 /\ success_count = 0 /\ exit_status = -1 /\ wait_time = 0
    /\ imported = FALSE
    /\ result = FALSE
    /\ FreshFrame
    /\ outcomes = << >> /\ started = 0 /\ importFailed = FALSE
    /\ delays = 0
    /\ req = NoReq /\ wireLog = << >>

httpRest == << mainVars, imported, driver, success, result, exc, email,
               loopVars, wfcVars, code, cookieVars, uploadVars, calls, reason,
               batchHist >>

\* lines 69, 82, 99: a call is handed to its channel; upload_to_server has
\* returned before line 69 when the server URL is empty
Request ==
    /\ pc = "http_idle"
    /\ Len(wireLog) < MaxCalls
    /\ \E c \in OutboundCalls :
          /\ c = "upload_to_server" => server_url # ""
          /\ req' = [call |-> c, channel |-> channel_of(c), tries |-> 0,
                     status |-> "sending"]
    /\ pc' = "http_send"
    /\ UNCHANGED << httpRest, wireLog >>

\* one transport attempt: a response ends the call; a transport error is
\* retried while the channel's Retry has not run out, else it is raised
Transmit ==
    /\ pc = "http_send"
    /\ \E outcome \in {"response", "transport-error"} :
          LET tried == req.tries + 1
              status == IF outcome = "response" THEN "done"
                        ELSE IF max_retries(req.channel) - tried < 0
                        THEN "raised"
                        ELSE "sending"
          IN /\ req' = [req EXCEPT !.tries = tried, !.status = status]
             /\ IF status = "sending"
                THEN UNCHANGED << pc, wireLog >>
                ELSE /\ pc' = "http_idle"
                     /\ wireLog' = Append(wireLog, req')
    /\ UNCHANGED httpRest

NextHttp == Request \/ Transmit

SpecHttp == InitHttp /\ [][NextHttp]_vars

(***************************************************************************)
(* Properties.                                                             *)
(***************************************************************************)
InCalls(c) == \E k \in DOMAIN calls : calls[k] = c
NumTrue(seq) == Cardinality({k \in DOMAIN seq : seq[k]})

\* control points at which the last attempt's frame is complete
AttemptOver ==
    /\ started > 0
    /\ pc \in {"finally", "return", "returned", "main_if_delay", "main_sleep",
               "main_for", "main_end", "exited"}

\* C1 (as claimed): when register_one_account returns from an attempt that
\* opened a browser session, close (driver.quit) has been called on it,
\* on every path, also when a step of the cleanup fails.
C1_SessionClosedOnReturn ==
    (pc = "returned" /\ driver # None) => InCalls("quit")

\* C2 (as claimed): when the cookie set holds two or more cookies named
\* __client, exactly one of them with 'clerk' in its domain, the selected
\* credential is that cookie's value, whatever the order of the cookies.
C2_ClerkCookieSelected ==
    pc = "if_client_key" =>
        LET named == {k \in DOMAIN all_cookies :
                          all_cookies[k].name = "__client"}
            onClerk == {k \in named : Contains(Clerk, all_cookies[k].domain)}
        IN (Cardinality(named) >= 2 /\ Cardinality(onClerk) = 1) =>
               \E k \in onClerk : client_key = all_cookies[k].value

\* C3: within one call of wait_for_code extraction is attempted at most
\* once per message id, and no step of the call removes an id from
\* processed_ids.
C3_PollDedup ==
    /\ [](\A m \in MsgIds : extractCount[m] <= 1)
    /\ [][pc = "wfc_while" => processed_ids \subseteq processed_ids']_vars

C3_Witness ==
    /\ pc = "wfc_while"
    /\ lastPoll = "seen"
    /\ processed_ids = {1}
    /\ extractCount[1] = 1

\* C4: the success count is the number of attempts that returned True, and
\* the exit status is 0 exactly when at least one attempt returned True,
\* 1 otherwise.
C4_BatchAggregation ==
    /\ pc # "returned" => success_count = NumTrue(outcomes)
    /\ pc = "exited" =>
          /\ exit_status \in {0, 1}
          /\ exit_status = 0 <=> \E k \in DOMAIN outcomes : outcomes[k]

C4_Witness ==
    /\ pc = "exited"
    /\ outcomes = << FALSE, TRUE >>
    /\ success_count = 1
    /\ exit_status = 0

\* C5: an attempt that leaves the challenge loop without the code field and
\* without an error of the field check has made exactly 15 field checks and
\* 15 solver invocations and ends as challenge-timeout with no error in
\* flight, also when the solver raised.
C5_ChallengeLoopBounded ==
    (/\ pc \notin {"loop_check", "loop_solve", "after_loop"}
     /\ fieldChecks > 0
     /\ ~pass_check
     /\ reason # "field-check-error")
    => /\ reason = "challenge-timeout"
       /\ fieldChecks = ChallengeRounds
       /\ solverCalls = ChallengeRounds
       /\ exc = "none"
       /\ pc # "crashed"
       /\ result = FALSE

C5_Witness ==
    /\ pc = "returned"
    /\ reason = "challenge-timeout"
    /\ solverRaised
    /\ solverCalls = ChallengeRounds
    /\ result = FALSE

\* C6: the search returns the first maximal digit run of length exactly 6,
\* or nothing when the text has no such run; never a window of a longer run.
IsRun(s, a, b) ==
    /\ a <= b
    /\ \A k \in a..b : IsDigit(s[k])
    /\ (a = 1 \/ ~IsDigit(s[a - 1]))
    /\ (b = Len(s) \/ ~IsDigit(s[b + 1]))

SixRuns(s) == {a \in 1..Len(s) : a + 5 <= Len(s) /\ IsRun(s, a, a + 5)}

C6_CodeExtractor ==
    pc = "extracted" =>
        IF SixRuns(source) = {}
        THEN match = NoMatch /\ code = << >>
        ELSE /\ match.start = Min(SixRuns(source))
             /\ match.group = SubSeq(source, match.start, match.start + 5)
             /\ code = match.group

C6_Witness ==
    /\ pc = "extracted"
    /\ source = << "7", "7", "7", "7", "7", "7", "7", "x",
                   "7", "7", "7", "7", "7", "7" >>
    /\ match.start = 9

\* C7: an attempt prints the CLIENT_KEY line exactly once, with the
\* extracted value, when it extracted a credential, and never otherwise,
\* whether the publish was skipped, succeeded or failed.
C7_ReportingChannel ==
    /\ Len(stdout) <= 1
    /\ (stdout # << >>) <=> (AttemptOver /\ reason = "none")
    /\ stdout # << >> => (Truthy(client_key) /\ stdout = << client_key >>)

C7_Witness ==
    /\ pc = "returned"
    /\ stdout = << "tok_app" >>
    /\ server_url = ""
    /\ posts = 0

\* C8: once a credential was extracted and handed to the publisher, the
\* attempt succeeds whatever the publish did (200/201, another status, an
\* exception), and no error is in flight.
C8_PublishBestEffort ==
    upload_ret # None =>
        /\ success
        /\ exc = "none"
        /\ pc \notin {"except", "crashed"}
        /\ pc \in {"return", "returned"} => result = TRUE
        /\ pc = "returned" => outcomes[Len(outcomes)] = TRUE

C8_Witness ==
    /\ pc = "returned"
    /\ post_result = "raise"
    /\ upload_ret = "False"
    /\ result = TRUE

\* C9 (as claimed): after the ImportError of an attempt the batch neither
\* sleeps the inter-attempt delay nor runs a step of a further attempt.
C9_DependencyFatal ==
    importFailed =>
        pc \in {"return", "returned", "main_if_delay", "main_for",
                "main_end", "exited"}

\* C9 (amended): an attempt that hits the ImportError returns False without
\* opening a session, and the batch goes on: it still makes total_num calls.
C9_DependencyFailsAttemptOnly ==
    /\ (pc = "returned" /\ reason = "dependency") =>
          (result = FALSE /\ driver = None /\ calls = << >> /\ stdout = << >>)
    /\ (importFailed /\ pc = "exited") =>
          (started = total_num /\ Len(outcomes) = total_num)

C9_Witness ==
    /\ importFailed
    /\ pc = "exited"
    /\ reason = "dependency"
    /\ started = 2
    /\ outcomes = << FALSE, FALSE >>
    /\ exit_status = 1

\* C10: an error of an attempt (session creation, navigation, form not
\* found, mailbox unavailable, challenge timeout, code timeout, credential
\* not found) ends the attempt with False and nothing in flight, and the
\* batch makes exactly total_num calls.
AttemptErrors ==
    {"session", "navigation", "form-not-found", "mailbox-unavailable",
     "challenge-timeout", "code-timeout", "credential-not-found", "error",
     "field-check-error"}

C10_FailureIsolation ==
    /\ pc # "crashed"
    /\ (pc = "returned" /\ reason \in AttemptErrors) =>
          (result = FALSE /\ exc = "none"
           /\ outcomes[Len(outcomes)] = FALSE)
    /\ pc = "exited" => (started = total_num /\ Len(outcomes) = total_num)

C10_Witness ==
    /\ pc = "exited"
    /\ total_num = 2
    /\ outcomes = << FALSE, FALSE >>
    /\ reason = "session"
    /\ ~importFailed

\* C11: attempts run one after another; each inter-attempt sleep lasts
\* 8..15 seconds; exactly one sleep separates consecutive attempts whatever
\* the earlier one returned, none follows the last, so a batch of total_num
\* attempts sleeps total_num - 1 times.
InAttempt ==
    pc \notin {"main_for", "returned", "main_if_delay", "main_sleep",
               "main_end", "exited", "crashed"}

C11_BatchPacing ==
    /\ pc = "main_sleep" =>
          (wait_time \in DelayMin..DelayMax /\ i < total_num - 1)
    /\ pc # "main_sleep" => wait_time = 0
    /\ (InAttempt \/ pc \in {"returned", "main_if_delay"}) =>
          (started = i + 1 /\ delays = i /\ Len(outcomes) \in {i, i + 1})
    /\ pc = "exited" =>
          delays = (IF total_num >= 1 THEN total_num - 1 ELSE 0)

C11_Witness ==
    /\ pc = "exited"
    /\ total_num = 2
    /\ outcomes = << FALSE, TRUE >>
    /\ delays = 1

\* C12 (as claimed): a fetch of the message list is never issued right
\* after a poll cycle that ended in a swallowed error (of the fetch or of
\* the processing of its answer) without the 3-second sleep in between.
\* Every step from the loop head with budget left begins with a fetch.
C12_FetchAfterInterval ==
    [][(pc = "wfc_while" /\ elapsed < Budget) =>
           lastPoll \notin {"error", "failed"}]_vars

\* C13 (as claimed): no poll cycle leaves unprocessed a message of the
\* fetched list whose id is not in processed_ids; also not when the newest
\* message was processed before and the unprocessed one sits behind it.
C13_NewestUnprocessedHandled ==
    lastPoll # "skipped"

\* C14: wait_for_code always comes to its return and never raises; it
\* returns the code of the first successful search or, after the budget,
\* nothing; with 120 seconds elapsed the loop head starts no poll cycle.
C14_PollTerminates ==
    /\ (pc = "wfc_while") ~> (pc = "wfc_return")
    /\ [](pc \in {"wfc_while", "wfc_return", "if_code"} /\ exc = "none")
    /\ [](pc = "wfc_return" =>
            \/ (lastPoll = "found" /\ code # << >> /\ code = match.group)
            \/ (lastPoll = "timeout" /\ code = << >> /\ elapsed >= Budget))
    /\ [][(pc = "wfc_while" /\ elapsed >= Budget) =>
             (pc' = "wfc_return" /\ code' = << >>
              /\ UNCHANGED << elapsed, processed_ids, extractCount >>)]_vars

C14_Witness ==
    /\ pc = "wfc_return"
    /\ lastPoll = "timeout"
    /\ processed_ids = {1, 2}
    /\ elapsed > Budget
    /\ code = << >>

\* C15: force_inject_turnstile never raises: whatever fails in the main
\* document, while the iframes are enumerated, inside an iframe or while
\* the scope is switched back, the invocation ends with a boolean.
C15_SolverNeverRaises == solver.ret # "raise"

\* C16: an invocation that returns has entered iframes only when the main
\* document did not have the control, in document order, none after the
\* first one where the control was found, has switched back at least once
\* for every iframe entered, and leaves the main document as the scope.
C16_SearchOrderAndScope ==
    solver.ret \in {"True", "False"} =>
        /\ scope = "main"
        /\ solver.mainHit => solver.entered = << >>
        /\ \A a, b \in DOMAIN solver.entered :
               a < b => solver.entered[a] < solver.entered[b]
        /\ solver.hitAt # 0 =>
               solver.entered[Len(solver.entered)] = solver.hitAt
        /\ solver.backs >= Len(solver.entered)

\* C20: the challenge loop is left without the code field only when the
\* page does not show it: a field that an invocation of the solver, the
\* last one included, brought up is seen before challenge-timeout.
C20_FieldSeenAfterEverySolve ==
    /\ (pc = "after_loop" /\ field) => pass_check
    /\ reason = "challenge-timeout" => ~field

\* C17: an attempt sends at most one POST to the credential store, only
\* with a credential it extracted, never when it ends as failed and never
\* when the server URL is empty, where the publisher sends nothing and
\* returns True.
C17_OnePublishPerAttempt ==
    /\ posts <= 1
    /\ posts = 1 => (Truthy(client_key) /\ success /\ server_url # "")
    /\ (AttemptOver /\ pc # "finally" /\ result = FALSE) => posts = 0
    /\ pc = "finally" => (posts = 1 => success)
    /\ server_url = "" =>
           (posts = 0 /\ (upload_ret # None => upload_ret = "True"))

C17_Witness ==
    /\ pc = "returned"
    /\ posts = 1
    /\ post_result = "200"
    /\ upload_ret = "True"
    /\ outcomes = << TRUE >>

\* C18: the mailbox calls and the publish call all go through the channel
\* that retries a transport error, and no call makes more than 3 transport
\* attempts.
C18_TransportRetry ==
    req # NoReq =>
        /\ req.channel = "http"
        /\ req.tries <= 3
        /\ req.status = "raised" => req.tries > 1

\* the steps of an attempt in the order of the code
StepOrder ==
    << "import", "new_driver", "navigate", "sign_in", "wait_welcome",
       "sign_up", "wait_form", "create_temp_email", "fill", "continue",
       "loop_check", "loop_solve", "after_loop", "wait_otp", "wfc_while",
       "wfc_return", "if_code", "username", "get_cookies", "select",
       "if_client_key", "except", "finally", "return", "returned" >>

Steps == {StepOrder[k] : k \in DOMAIN StepOrder}
RankOf == [p \in Steps |-> CHOOSE k \in DOMAIN StepOrder : StepOrder[k] = p]
IsStep(p) == p \in Steps
Rank(p) == RankOf[p]

\* C19: within an attempt control only moves forward through the steps,
\* going back only from the solver to the field check of the challenge
\* loop; from filling the form on the attempt has a mailbox address and
\* has none before, the mailbox is polled only once the code field was
\* seen, and the username, cookie and publish steps have a code.
C19_ForwardOnly ==
    /\ [][(IsStep(pc) /\ IsStep(pc')) =>
             \/ Rank(pc') > Rank(pc)
             \/ pc' = pc /\ pc \in {"loop_check", "wfc_while"}
             \/ pc = "loop_solve" /\ pc' = "loop_check"]_vars
    /\ [](IsStep(pc) =>
             /\ Rank(pc) <= Rank("create_temp_email") => email = None
             /\ (Rank(pc) >= Rank("fill") /\ Rank(pc) <= Rank("if_client_key"))
                    => email # None
             /\ (Rank(pc) >= Rank("wait_otp") /\ Rank(pc) <= Rank("if_client_key"))
                    => pass_check
             /\ (Rank(pc) >= Rank("username") /\ Rank(pc) <= Rank("if_client_key"))
                    => code # << >>
             /\ posts = 1 => (email # None /\ pass_check /\ code # << >>))

C19_Witness ==
    /\ pc = "finally"
    /\ success
    /\ posts = 1
    /\ email # None /\ pass_check /\ code # << >>
====
